---- MODULE Spec2Model ----
(***************************************************************************)
(* Model of the SonarQube Prometheus exporter (package pkg): the metric    *)
(* registry PrometheusExporter and the Collector that schedules the        *)
(* per-component reporting goroutines.                                     *)
(*                                                                         *)
(* Go strings are sequences of character codes (code points), so that      *)
(* escaping, splitting and sorting are computed as the code computes them. *)
(* Metric keys and metric types are only ever compared for equality and    *)
(* are TLA+ strings.                                                       *)
(***************************************************************************)
EXTENDS Integers, Sequences, FiniteSets, TLC

\* ------------------------------------------------------------------------
\* Bounds of the model
\* ------------------------------------------------------------------------
\* reporting goroutines launched in one run
MaxTasks == 2
\* the longest string escapeName is called with on its own
MaxLen == 3
\* the calls of Report made one after the other on one exporter
MaxReports == 3

\* ------------------------------------------------------------------------
\* Strings
\* ------------------------------------------------------------------------
Range(s) == {s[i] : i \in 1..Len(s)}

\* lexicographic order of two strings, as Go's < on strings
RECURSIVE StrLess(_, _)
StrLess(a, b) ==
    IF b = <<>> THEN FALSE
    ELSE IF a = <<>> THEN TRUE
    ELSE IF a[1] # b[1] THEN a[1] < b[1]
    ELSE StrLess(Tail(a), Tail(b))

\* promNamePattern = [^a-zA-Z_:] : the characters the pattern does NOT match
promNameChar(ch) == ch \in (65..90) \cup (97..122) \cup {95, 58}

\* escapeName: every character matching promNamePattern becomes "_"
escapeName(n) == [i \in 1..Len(n) |-> IF promNameChar(n[i]) THEN n[i] ELSE 95]

\* "component"
componentNameLabel == <<99, 111, 109, 112, 111, 110, 101, 110, 116>>

\* the metric types that are never registered
unsupportedMetricTypes == {"DATA"}

\* sort.Strings, as an insertion sort
RECURSIVE InsertSorted(_, _)
InsertSorted(x, s) ==
    IF s = <<>> THEN <<x>>
    ELSE IF StrLess(x, s[1]) THEN <<x>> \o s
    ELSE <<s[1]>> \o InsertSorted(x, Tail(s))

RECURSIVE SortStrings(_)
SortStrings(s) ==
    IF s = <<>> THEN <<>> ELSE InsertSorted(s[1], SortStrings(Tail(s)))

\* sort.SearchStrings: binary search for the smallest index i (0-based) in
\* [lo, hi) with a[i] >= x, hi when there is none
RECURSIVE SearchFrom(_, _, _, _)
SearchFrom(a, x, lo, hi) ==
    IF lo >= hi THEN lo
    ELSE LET h == (lo + hi) \div 2
         IN  IF StrLess(a[h + 1], x) THEN SearchFrom(a, x, h + 1, hi)
             ELSE SearchFrom(a, x, lo, h)

SearchStrings(a, x) == SearchFrom(a, x, 0, Len(a))

\* strings.Index: 1-based position of the first occurrence of sep in s, 0 if none
IndexOf(s, sep) ==
    LET hits == {i \in 1..(Len(s) - Len(sep) + 1) :
                    SubSeq(s, i, i + Len(sep) - 1) = sep}
    IN  IF hits = {} THEN 0 ELSE CHOOSE i \in hits : \A j \in hits : i <= j

\* the string is split at the last occurrence of sep
SplitN2_last(s, sep) ==
    LET hits == {i \in 1..(Len(s) - Len(sep) + 1) :
                    SubSeq(s, i, i + Len(sep) - 1) = sep}
    IN  IF hits = {} THEN <<s>>
        ELSE LET i == CHOOSE h \in hits : \A j \in hits : j <= h
             IN  <<SubSeq(s, 1, i - 1), SubSeq(s, i + Len(sep), Len(s))>>

\* strings.SplitN(s, sep, 2) for a non-empty sep
SplitN2(s, sep) ==
    LET i == IndexOf(s, sep)
    IN  IF i = 0 THEN <<s>>
        ELSE <<SubSeq(s, 1, i - 1), SubSeq(s, i + Len(sep), Len(s))>>

\* a Go map[string]string is a function from its keys to their values
EmptyMap == [k \in {} |-> <<>>]
MapPut(m, k, v) == [x \in (DOMAIN m) \cup {k} |-> IF x = k THEN v ELSE m[x]]
MapDelete(m, k) == [x \in (DOMAIN m) \ {k} |-> m[x]]

\* ------------------------------------------------------------------------
\* PrometheusExporter: pure parts
\* ------------------------------------------------------------------------
\* the list is left in the order of the configuration
NewPrometheusExporter_unsorted(names) ==
    Append([i \in 1..Len(names) |-> escapeName(names[i])], componentNameLabel)

\* NewPrometheusExporter: the names are escaped in place, the component label
\* is appended and the list is sorted; the result is pe.labels
EscapeAll(names) == [i \in 1..Len(names) |-> escapeName(names[i])]

NewPrometheusExporter(names) ==
    SortStrings(Append(EscapeAll(names), componentNameLabel))

\* supportsLabel: binary search in pe.labels
supportsLabel(peLabels, l) ==
    LET idx == SearchStrings(peLabels, l)
    IN  idx < Len(peLabels) /\ peLabels[idx + 1] = l

\* nothing is deleted
filterSupported_keepsAll(peLabels, lbls) == lbls

\* filterSupported: deletes every entry whose name is not supported
filterSupported(peLabels, lbls) ==
    [k \in {x \in DOMAIN lbls : supportsLabel(peLabels, x)} |-> lbls[k]]

\* the missing names are not filled
fillDefaults_noEmpty(peLabels, exportEmpty, lbls, component) ==
    MapPut(lbls, componentNameLabel, component)

\* the component label is set only when the tags gave none
fillDefaults_keepsTag(peLabels, exportEmpty, lbls, component) ==
    LET withComponent == IF componentNameLabel \in DOMAIN lbls THEN lbls
                         ELSE MapPut(lbls, componentNameLabel, component)
    IN  IF exportEmpty
        THEN [k \in (DOMAIN withComponent) \cup Range(peLabels) |->
                 IF k \in DOMAIN withComponent THEN withComponent[k] ELSE <<>>]
        ELSE withComponent

\* fillDefaults: the component label is always (over)written; with
\* exportEmptyLabels every name of pe.labels that is missing becomes ""
fillDefaults(peLabels, exportEmpty, lbls, component) ==
    LET withComponent == MapPut(lbls, componentNameLabel, component)
    IN  IF exportEmpty
        THEN [k \in (DOMAIN withComponent) \cup Range(peLabels) |->
                 IF k \in DOMAIN withComponent THEN withComponent[k] ELSE <<>>]
        ELSE withComponent

\* the check is missing
labelsMatch_noCheck(peLabels, lbls) == TRUE

\* the check len(labels) != len(pe.labels) of Report
labelsMatch(peLabels, lbls) == Cardinality(DOMAIN lbls) = Len(peLabels)

\* every type is supported
supportsMetric_all(m) == TRUE

\* supportsMetric
supportsMetric(m) == m.Type \notin unsupportedMetricTypes

\* strconv.ParseBool: the literals it accepts
\* "1" "t" "T" "TRUE" "true" "True"
ParseBoolTrue ==
    {<<49>>, <<116>>, <<84>>, <<84, 82, 85, 69>>, <<116, 114, 117, 101>>,
     <<84, 114, 117, 101>>}
\* "0" "f" "F" "FALSE" "false" "False"
ParseBoolFalse ==
    {<<48>>, <<102>>, <<70>>, <<70, 65, 76, 83, 69>>,
     <<102, 97, 108, 115, 101>>, <<70, 97, 108, 115, 101>>}

\* strconv.ParseFloat on the strings of the model: a non-empty string of
\* decimal digits is its number, every other string of the model (empty, or
\* holding a letter; none spells inf, nan or an exponent) is an error
RECURSIVE DecimalValue(_)
DecimalValue(s) ==
    IF s = <<>> THEN 0
    ELSE 10 * DecimalValue(SubSeq(s, 1, Len(s) - 1)) + (s[Len(s)] - 48)

IsDecimal(s) == s # <<>> /\ \A i \in 1..Len(s) : s[i] \in 48..57

\* a BOOL value that does not parse is an error
getFloatValue_boolErr(mType, measure) ==
    LET strVal == IF measure.Value # <<>> THEN measure.Value
                  ELSE measure.PeriodValue
    IN  IF mType = "BOOL"
        THEN [err |-> strVal \notin ParseBoolTrue \cup ParseBoolFalse,
              val |-> IF strVal \in ParseBoolTrue THEN 1 ELSE 0]
        ELSE IF IsDecimal(strVal)
             THEN [err |-> FALSE, val |-> DecimalValue(strVal)]
             ELSE [err |-> TRUE, val |-> 0]

\* the period value is used whenever it is not empty
getFloatValue_periodFirst(mType, measure) ==
    LET strVal == IF measure.PeriodValue # <<>> THEN measure.PeriodValue
                  ELSE measure.Value
    IN  IF mType = "BOOL"
        THEN [err |-> FALSE,
              val |-> IF strVal \in ParseBoolTrue THEN 1 ELSE 0]
        ELSE IF IsDecimal(strVal)
             THEN [err |-> FALSE, val |-> DecimalValue(strVal)]
             ELSE [err |-> TRUE, val |-> 0]

\* getFloatValue: the direct value when it is not empty, the period value
\* otherwise; BOOL never fails (fVar stays 0 when ParseBool fails)
getFloatValue(mType, measure) ==
    LET strVal == IF measure.Value # <<>> THEN measure.Value
                  ELSE measure.PeriodValue
    IN  IF mType = "BOOL"
        THEN [err |-> FALSE,
              val |-> IF strVal \in ParseBoolTrue THEN 1 ELSE 0]
        ELSE IF IsDecimal(strVal)
             THEN [err |-> FALSE, val |-> DecimalValue(strVal)]
             ELSE [err |-> TRUE, val |-> 0]

\* tagsToLabels: each tag is split at the first separator; a tag with the
\* separator puts escapeName(left) -> right, later tags overwrite earlier ones
RECURSIVE tagsToLabelsFrom(_, _, _)
tagsToLabelsFrom(sep, tags, lbls) ==
    IF tags = <<>> THEN lbls
    ELSE LET parts == SplitN2(tags[1], sep)
         IN  tagsToLabelsFrom(sep, Tail(tags),
                 IF Len(parts) = 2
                 THEN MapPut(lbls, escapeName(parts[1]), parts[2])
                 ELSE lbls)

tagsToLabels(sep, tags) ==
    IF sep # <<>> THEN tagsToLabelsFrom(sep, tags, EmptyMap) ELSE EmptyMap

\* ------------------------------------------------------------------------
\* The Prometheus default registry, as far as registerMetrics uses it
\* ------------------------------------------------------------------------
\* prometheus.Register refuses a collector whose fully qualified name is in
\* use, and one whose descriptor is invalid because a variable label name
\* occurs twice
HasDuplicates(s) == \E i, j \in 1..Len(s) : i # j /\ s[i] = s[j]

RegisterFails(prom, name, peLabels) ==
    \/ \E d \in prom : d.name = name
    \/ HasDuplicates(peLabels)

\* a key is never taken as registered
alreadyRegistered_never(mets, m) == FALSE

\* the names collected so far are returned with the error
registerError_keepsNames(st) ==
    [err |-> TRUE, mNames |-> st.mNames, metrics |-> st.metrics, prom |-> st.prom]

\* registerMetrics: the loop over the catalog from entry i on.  st is
\* [metrics, prom, mNames]; the result adds err (the return value)
alreadyRegistered(mets, m) == m.Key \in DOMAIN mets

\* the error takes the metrics registered by the call out of pe.metrics
registerError_rollsBack(st) ==
    [err |-> TRUE, mNames |-> <<>>, metrics |-> EmptyMap, prom |-> st.prom]

\* return nil, fmt.Errorf("unable to register metric: %w", err): what was
\* registered so far stays in pe.metrics and in the default registry
registerError(st) ==
    [err |-> TRUE, mNames |-> <<>>, metrics |-> st.metrics, prom |-> st.prom]

RECURSIVE registerFrom(_, _, _, _)
registerFrom(catalog, i, peLabels, st) ==
    IF i > Len(catalog)
    THEN [err |-> FALSE, mNames |-> st.mNames, metrics |-> st.metrics,
          prom |-> st.prom]
    ELSE LET m == catalog[i]
         IN  IF alreadyRegistered(st.metrics, m)
             THEN registerFrom(catalog, i + 1, peLabels, st)
             ELSE IF ~supportsMetric(m)
             THEN registerFrom(catalog, i + 1, peLabels, st)
             ELSE IF RegisterFails(st.prom, m.Key, peLabels)
             THEN registerError(st)
             ELSE registerFrom(catalog, i + 1, peLabels,
                     [metrics |-> [k \in (DOMAIN st.metrics) \cup {m.Key} |->
                                      IF k = m.Key
                                      THEN [metricType |-> m.Type]
                                      ELSE st.metrics[k]],
                      prom |-> st.prom \cup
                                 {[name |-> m.Key, labelNames |-> peLabels]},
                      mNames |-> Append(st.mNames, m.Key)])

registerMetrics(catalog, peLabels, mets, prom) ==
    registerFrom(catalog, 1, peLabels,
                 [metrics |-> mets, prom |-> prom, mNames |-> <<>>])

\* a change of the labels removes the entry of the component
checkStaleLabels_dropsMemo(memo, pts, component, key, lbls) ==
    IF component \notin DOMAIN memo
    THEN [componentLabels |-> MapPut(memo, component, lbls), points |-> pts]
    ELSE IF lbls # memo[component]
    THEN [componentLabels |-> MapDelete(memo, component),
          points |-> [pts EXCEPT ![key] = MapDelete(@, memo[component])]]
    ELSE [componentLabels |-> memo, points |-> pts]

\* the old point is deleted from the series of every metric
checkStaleLabels_allSeries(memo, pts, component, key, lbls) ==
    IF component \notin DOMAIN memo
    THEN [componentLabels |-> MapPut(memo, component, lbls), points |-> pts]
    ELSE IF lbls # memo[component]
    THEN [componentLabels |-> MapPut(memo, component, lbls),
          points |-> [k \in DOMAIN pts |-> MapDelete(pts[k], memo[component])]]
    ELSE [componentLabels |-> memo, points |-> pts]

\* checkStaleLabels: the memo is kept per component; the old point is
\* deleted from the series of the metric at hand only
checkStaleLabels(memo, pts, component, key, lbls) ==
    IF component \notin DOMAIN memo
    THEN [componentLabels |-> MapPut(memo, component, lbls), points |-> pts]
    ELSE IF lbls # memo[component]
    THEN [componentLabels |-> MapPut(memo, component, lbls),
          points |-> [pts EXCEPT ![key] = MapDelete(@, memo[component])]]
    ELSE [componentLabels |-> memo, points |-> pts]

\* one iteration of the loop of Report over measures.Component.Measures
reportMeasure(mets, memo, pts, component, lbls, measure) ==
    IF measure.Metric \notin DOMAIN mets
    THEN [componentLabels |-> memo, points |-> pts, set |-> FALSE]
    ELSE LET fv == getFloatValue(mets[measure.Metric].metricType, measure)
         IN  IF fv.err
             THEN [componentLabels |-> memo, points |-> pts, set |-> FALSE]
             ELSE LET withPoint ==
                          [pts EXCEPT ![measure.Metric] = MapPut(@, lbls, fv.val)]
                      st == checkStaleLabels(memo, withPoint, component,
                                             measure.Metric, lbls)
                  IN  [componentLabels |-> st.componentLabels,
                       points |-> st.points, set |-> TRUE]

\* the loop ends at the first measure that is skipped
RECURSIVE reportFrom_breaks(_, _, _, _, _, _)
reportFrom_breaks(mets, component, lbls, measures, i, st) ==
    IF i > Len(measures) THEN st
    ELSE LET r == reportMeasure(mets, st.componentLabels, st.points,
                                component, lbls, measures[i])
         IN  IF ~r.set THEN st
             ELSE reportFrom_breaks(mets, component, lbls, measures, i + 1,
                      [componentLabels |-> r.componentLabels,
                       points |-> r.points,
                       setKinds |-> st.setKinds \cup {measures[i].Metric}])

\* the loop of Report over measures.Component.Measures from entry i on; st is
\* [componentLabels, points, setKinds], setKinds the metrics whose point was set
RECURSIVE reportFrom(_, _, _, _, _, _)
reportFrom(mets, component, lbls, measures, i, st) ==
    IF i > Len(measures) THEN st
    ELSE LET r == reportMeasure(mets, st.componentLabels, st.points,
                                component, lbls, measures[i])
         IN  reportFrom(mets, component, lbls, measures, i + 1,
                 [componentLabels |-> r.componentLabels, points |-> r.points,
                  setKinds |-> IF r.set
                               THEN st.setKinds \cup {measures[i].Metric}
                               ELSE st.setKinds])

\* ------------------------------------------------------------------------
\* SonarClient.executeGet
\* ------------------------------------------------------------------------
\* the response bodies: empty, a JSON document, and text that is no JSON
Bodies == {"", "{\"paging\":{}}", "<html>"}

\* json.Decoder.Decode succeeds on a body that holds a JSON document
JsonBodies == {"{\"paging\":{}}"}

\* the status codes of the responses http.Client.Do hands to executeGet
\* (redirects with a Location are followed by the client)
Statuses == {101, 200, 204, 300, 304, 400, 404, 500}

\* the error of Decode carries no status code
NoStatus == 0

\* executeGet for a response with the given status and body.  The result is
\* the error, the status code and the body the error carries, and whether
\* res was decoded into: an error with the status code and the body for a
\* status of 400 or more, otherwise what Decode returns
executeGet(status, body) ==
    IF status >= 400
    THEN [err |-> TRUE, status |-> status, body |-> body, decoded |-> FALSE]
    ELSE IF body \in JsonBodies
         THEN [err |-> FALSE, status |-> NoStatus, body |-> "", decoded |-> TRUE]
         ELSE [err |-> TRUE, status |-> NoStatus, body |-> "", decoded |-> FALSE]

\* ------------------------------------------------------------------------
\* The inputs the model draws from
\* ------------------------------------------------------------------------
\* component keys "p1" and "p2"
ComponentKeys == {<<112, 49>>, <<112, 50>>}

\* the configurations: TAG_KEYS, TAG_SEPARATOR, TAG_EXPORT_EMPTY
\*   "z,a-" with "#", empty labels not exported
\*   "z,a-" with "#", empty labels exported
\*   "t,t" with "#": the same tag key twice
Configs ==
    {[tagKeys |-> <<(<<122>>), <<97, 45>>>>, tagSeparator |-> <<35>>,
      exportEmptyLabels |-> FALSE],
     [tagKeys |-> <<(<<122>>), <<97, 45>>>>, tagSeparator |-> <<35>>,
      exportEmptyLabels |-> TRUE],
     [tagKeys |-> <<(<<116>>), <<116>>>>, tagSeparator |-> <<35>>,
      exportEmptyLabels |-> TRUE]}

Metric(k, t) == [Key |-> k, Type |-> t]

\* the catalogs GetMetrics may return
Catalogs ==
    {<<Metric("bugs", "INT"), Metric("coverage", "DATA")>>,
     <<Metric("bugs", "DATA"), Metric("bugs", "INT"), Metric("bugs", "BOOL"),
       Metric("alert", "BOOL")>>,
     <<Metric("coverage", "DATA")>>,
     <<Metric("bugs", "INT"), Metric("goroutines", "INT"), Metric("alert", "BOOL")>>}

\* the default registry is not empty when Schedule runs: the Go and process
\* collectors are registered in it.  "goroutines" stands for a key whose
\* fully qualified name under the configured namespace is one of theirs
PromInitial == {[name |-> "goroutines", labelNames |-> <<>>]}

\* the component lists SearchComponents may return
ComponentLists ==
    {<<>>, <<(<<112, 49>>)>>, <<(<<112, 49>>), <<112, 50>>>>}

\* the tag lists of a component
\*   "z#x" "a-#y"
\*   "z#y" "component#x" "a-#y#x"
\*   "z#x" "u#y" "a-"
TagLists ==
    {<<(<<122, 35, 120>>), <<97, 45, 35, 121>>>>,
     <<(<<122, 35, 121>>), componentNameLabel \o <<35, 120>>,
       <<97, 45, 35, 121, 35, 120>>>>,
     <<(<<122, 35, 120>>), <<117, 35, 121>>, <<97, 45>>>>}

Measure(k, v, pv) == [Metric |-> k, Value |-> v, PeriodValue |-> pv]

\* the measure lists GetMeasures may return
\*   bugs "1", alert "true"
\*   bugs "abc" with period "7", alert "" with period "t", coverage "2"
MeasureLists ==
    {<<Measure("bugs", <<49>>, <<>>), Measure("alert", <<116, 114, 117, 101>>, <<>>)>>,
     <<Measure("bugs", <<97, 98, 99>>, <<55>>), Measure("alert", <<>>, <<116>>),
       Measure("coverage", <<50>>, <<>>)>>}

\* ------------------------------------------------------------------------
\* State
\* ------------------------------------------------------------------------
VARIABLES
    tagKeys,            \* TAG_KEYS as configured (never written again)
    tagLabels,          \* Collector.tagLabels (escaped in place by the exporter)
    tagSeparator,       \* Collector.tagSeparator
    exportEmptyLabels,  \* Collector.exportEmptyLabels = pe.exportEmptyLabels
    pc,                 \* where Collector.Schedule is
    allMetrics,         \* the catalog GetMetrics returned
    created,            \* whether NewPrometheusExporter has run
    labels,             \* pe.labels
    metrics,            \* pe.metrics: key -> promMetric
    componentLabels,    \* pe.componentLabels: component -> last labels
    points,             \* the points of each registered GaugeVec
    prom,               \* the descriptors in the Prometheus default registry
    mut,                \* pe.mut: 0, or the task that holds the Lock
    metricNames,        \* what InitMetrics returned to Schedule
    initErr,            \* whether InitMetrics returned an error
    loop,               \* where the goroutine Collector.schedule is
    err,                \* schedule's err: whether the last callback failed
    done,               \* whether the done channel is closed
    tasks,              \* the reporting goroutines launched so far
    hist,               \* component -> its last accepted Report that returned
    arg,                \* the function called on its own, with its arguments
    out                 \* the values that function returned, in order

vars == <<tagKeys, tagLabels, tagSeparator, exportEmptyLabels, pc, allMetrics,
          created, labels, metrics, componentLabels, points, prom, mut,
          metricNames, initErr, loop, err, done, tasks, hist, arg, out>>

call == <<arg, out>>
config == <<tagKeys, tagSeparator, exportEmptyLabels>>
exporter == <<labels, metrics, componentLabels, points>>

NoComponent == [ok |-> FALSE, Key |-> <<>>, Tags |-> <<>>]
NoMeasures == [ok |-> FALSE, Measures |-> <<>>]

NewTask(key) ==
    [key |-> key, pc |-> "GetComponent", res |-> "", component |-> NoComponent,
     metricKeys |-> <<>>, measures |-> NoMeasures, labels |-> EmptyMap]

\* a goroutine that has ended keeps only how it ended
EndTask(t, how) ==
    [NewTask(<<>>) EXCEPT !.pc = "done", !.res = how]

\* no function is called on its own
NoCall == [fn |-> ""]

InitConfig(c) ==
    /\ tagKeys = c.tagKeys
    /\ tagLabels = c.tagKeys
    /\ tagSeparator = c.tagSeparator
    /\ exportEmptyLabels = c.exportEmptyLabels

InitState ==
    /\ pc = "GetMetrics"
    /\ allMetrics = <<>>
    /\ created = FALSE
    /\ labels = <<>>
    /\ metrics = EmptyMap
    /\ componentLabels = EmptyMap
    /\ points = EmptyMap
    /\ prom = PromInitial
    /\ mut = 0
    /\ metricNames = <<>>
    /\ initErr = FALSE
    /\ loop = "notStarted"
    /\ err = FALSE
    /\ done = FALSE
    /\ tasks = <<>>
    /\ hist = EmptyMap

Init ==
    /\ \E c \in Configs : InitConfig(c)
    /\ InitState
    /\ arg = NoCall
    /\ out = <<>>

\* ------------------------------------------------------------------------
\* Collector.Schedule
\* ------------------------------------------------------------------------
\* c.sonar.GetMetrics() fails: Schedule returns the error
GetMetricsFails ==
    /\ pc = "GetMetrics"
    /\ pc' = "failedGetMetrics"
    /\ UNCHANGED <<call, config, tagLabels, allMetrics, created, exporter, prom, mut,
                   metricNames, initErr, loop, err, done, tasks, hist>>

\* c.sonar.GetMetrics() returns a catalog
GetMetricsReturns ==
    /\ pc = "GetMetrics"
    /\ \E cat \in Catalogs : allMetrics' = cat
    /\ pc' = "InitMetrics"
    /\ UNCHANGED <<call, config, tagLabels, created, exporter, prom, mut,
                   metricNames, initErr, loop, err, done, tasks, hist>>

\* Schedule returns nil whatever InitMetrics returned
scheduleResult_ignoresErrors(r) == "returned"

\* Schedule starts the loop although no metric was registered
scheduleResult_startsEmpty(r) ==
    IF r.err THEN "failedInitMetrics" ELSE "returned"

\* how Schedule returns after InitMetrics: with its error, with the error
\* "no metrics to gather detected", or with nil after go c.schedule(...)
scheduleResult(r) ==
    IF r.err THEN "failedInitMetrics"
    ELSE IF Len(r.mNames) = 0 THEN "failedNoMetrics"
    ELSE "returned"

\* the rest of Schedule: NewPrometheusExporter, InitMetrics, the check for an
\* empty list, and go c.schedule(...).  registerMetrics takes pe.mut.RLock()
\* and releases it by the deferred RUnlock: it waits while a Report holds the
\* Lock and does not take the Lock itself, so mut stays 0 as it writes
\* pe.metrics
InitMetrics ==
    /\ pc = "InitMetrics"
    /\ mut = 0
    /\ LET peLabels == NewPrometheusExporter(tagLabels)
           r == registerMetrics(allMetrics, peLabels, metrics, prom)
       IN  /\ tagLabels' = EscapeAll(tagLabels)
           /\ created' = TRUE
           /\ labels' = peLabels
           /\ metrics' = r.metrics
           /\ prom' = r.prom
           /\ points' = [k \in DOMAIN r.metrics |-> EmptyMap]
           /\ initErr' = r.err
           /\ metricNames' = r.mNames
           /\ pc' = scheduleResult(r)
           /\ loop' = IF scheduleResult(r) = "returned" THEN "waiting" ELSE loop
    /\ UNCHANGED <<err, call, config, allMetrics, componentLabels, mut, done,
                   tasks, hist>>

\* ------------------------------------------------------------------------
\* Collector.schedule: the timer loop
\* ------------------------------------------------------------------------
\* SIGINT: main's goroutine closes done
Cancel ==
    /\ ~done
    /\ done' = TRUE
    /\ UNCHANGED <<call, config, tagLabels, pc, allMetrics, created, exporter, prom,
                   mut, metricNames, initErr, loop, err, tasks, hist>>

\* case <-done: return
LoopReturns ==
    /\ loop = "waiting"
    /\ done
    /\ loop' = "returned"
    /\ UNCHANGED <<err, call, config, tagLabels, pc, allMetrics, created, exporter,
                   prom,
                   mut, metricNames, initErr, done, tasks, hist>>

\* the next tick waits until every reporting goroutine has ended
TimerFires_waitsForTasks ==
    /\ loop = "waiting"
    /\ \A t \in 1..Len(tasks) : tasks[t].pc = "done"
    /\ loop' = "callback"
    /\ UNCHANGED <<err, call, config, tagLabels, pc, allMetrics, created, exporter,
                   prom,
                   mut, metricNames, initErr, done, tasks, hist>>

\* case <-attemptTimer: the callback starts (select takes any ready case, so
\* an expired timer may win over a closed done)
TimerFires ==
    /\ loop = "waiting"
    /\ loop' = "callback"
    /\ UNCHANGED <<err, call, config, tagLabels, pc, allMetrics, created, exporter,
                   prom,
                   mut, metricNames, initErr, done, tasks, hist>>

\* a failed SearchComponents makes the collector initialise again
SearchComponentsFails_reinit ==
    /\ loop = "callback"
    /\ loop' = "notStarted"
    /\ pc' = "GetMetrics"
    /\ err' = TRUE
    /\ UNCHANGED <<call, config, tagLabels, allMetrics, created, exporter, prom,
                   mut, metricNames, initErr, done, tasks, hist>>

\* a failed SearchComponents ends the loop
SearchComponentsFails_exits ==
    /\ loop = "callback"
    /\ loop' = "returned"
    /\ err' = TRUE
    /\ UNCHANGED <<call, config, tagLabels, pc, allMetrics, created, exporter,
                   prom, mut, metricNames, initErr, done, tasks, hist>>

\* the callback: SearchComponents fails, err is set and logged, the timer is
\* armed again
SearchComponentsFails ==
    /\ loop = "callback"
    /\ loop' = "waiting"
    /\ err' = TRUE
    /\ UNCHANGED <<call, config, tagLabels, pc, allMetrics, created, exporter, prom,
                   mut, metricNames, initErr, done, tasks, hist>>

\* the goroutines are started with the component as listed, without
\* GetComponent
SearchComponentsReturns_noRefetch ==
    /\ loop = "callback"
    /\ \E comps \in ComponentLists :
          /\ Len(tasks) + Len(comps) <= MaxTasks
          /\ tasks' = tasks \o
                 [i \in 1..Len(comps) |->
                     [NewTask(comps[i]) EXCEPT
                         !.pc = "GetMeasures",
                         !.component = [ok |-> TRUE, Key |-> comps[i],
                                        Tags |-> <<>>],
                         !.metricKeys = metricNames]]
    /\ loop' = "waiting"
    /\ err' = FALSE
    /\ UNCHANGED <<call, config, tagLabels, pc, allMetrics, created, exporter, prom,
                   mut, metricNames, initErr, done, hist>>

\* the callback: SearchComponents returns, one goroutine is started per
\* component, the timer is armed again
SearchComponentsReturns ==
    /\ loop = "callback"
    /\ \E comps \in ComponentLists :
          /\ Len(tasks) + Len(comps) <= MaxTasks
          /\ tasks' = tasks \o [i \in 1..Len(comps) |-> NewTask(comps[i])]
    /\ loop' = "waiting"
    /\ err' = FALSE
    /\ UNCHANGED <<call, config, tagLabels, pc, allMetrics, created, exporter, prom,
                   mut, metricNames, initErr, done, hist>>

\* ------------------------------------------------------------------------
\* Collector.reportComponent, one goroutine per component and tick
\* ------------------------------------------------------------------------
Tasks == 1..Len(tasks)

\* GetComponent fails: the error is logged, component is nil, and
\* component.Key panics; the goroutine's recover logs it and the goroutine ends
GetComponentFails(t) ==
    /\ tasks[t].pc = "GetComponent"
    /\ tasks' = [tasks EXCEPT ![t] = EndTask(@, "panic")]
    /\ UNCHANGED <<call, config, tagLabels, pc, allMetrics, created, exporter, prom,
                   mut, metricNames, initErr, loop, err, done, hist>>

\* GetComponent returns the component with its current tags, and
\* GetMeasures(component.Key, metricNames) is called: metricKeys are the keys
\* of the request
GetComponentReturns(t) ==
    /\ tasks[t].pc = "GetComponent"
    /\ \E tags \in TagLists :
          tasks' = [tasks EXCEPT ![t].pc = "GetMeasures",
                                 ![t].component =
                                     [ok |-> TRUE, Key |-> tasks[t].key,
                                      Tags |-> tags],
                                 ![t].metricKeys = metricNames]
    /\ UNCHANGED <<call, config, tagLabels, pc, allMetrics, created, exporter, prom,
                   mut, metricNames, initErr, loop, err, done, hist>>

\* after a failed GetMeasures the goroutine fetches the component again
GetMeasuresFails_retries(t) ==
    /\ tasks[t].pc = "GetMeasures"
    /\ tasks' = [tasks EXCEPT ![t].pc = "GetComponent",
                               ![t].component = NoComponent,
                               ![t].metricKeys = <<>>]
    /\ UNCHANGED <<call, config, tagLabels, pc, allMetrics, created, exporter, prom,
                   mut, metricNames, initErr, loop, err, done, hist>>

\* GetMeasures fails: the error is logged, measures is nil, and the goroutine
\* goes on to tagsToLabels and Report
GetMeasuresFails(t) ==
    /\ tasks[t].pc = "GetMeasures"
    /\ tasks' = [tasks EXCEPT ![t].pc = "Report",
                               ![t].measures = NoMeasures,
                               ![t].labels =
                                   tagsToLabels(tagSeparator,
                                                tasks[t].component.Tags)]
    /\ UNCHANGED <<call, config, tagLabels, pc, allMetrics, created, exporter, prom,
                   mut, metricNames, initErr, loop, err, done, hist>>

\* GetMeasures returns; labels := c.tagsToLabels(component.Tags)
GetMeasuresReturns(t) ==
    /\ tasks[t].pc = "GetMeasures"
    /\ \E ms \in MeasureLists :
          tasks' = [tasks EXCEPT ![t].pc = "Report",
                                 ![t].measures = [ok |-> TRUE, Measures |-> ms],
                                 ![t].labels =
                                     tagsToLabels(tagSeparator,
                                                  tasks[t].component.Tags)]
    /\ UNCHANGED <<call, config, tagLabels, pc, allMetrics, created, exporter, prom,
                   mut, metricNames, initErr, loop, err, done, hist>>

\* ------------------------------------------------------------------------
\* PrometheusExporter.Report
\* ------------------------------------------------------------------------
\* the labels of a Report after fillDefaults and filterSupported
reportLabels(t) ==
    filterSupported(labels,
        fillDefaults(labels, exportEmptyLabels, tasks[t].labels,
                     tasks[t].component.Key))

\* the Unlock is not deferred: a panic in Report leaves the lock taken
ReportEnter_noDefer(t) ==
    /\ tasks[t].pc = "Report"
    /\ mut = 0
    /\ LET lbls == reportLabels(t)
       IN  IF ~labelsMatch(labels, lbls)
           THEN /\ tasks' = [tasks EXCEPT ![t] = EndTask(@, "dropped")]
                /\ mut' = 0
           ELSE IF ~tasks[t].measures.ok
           THEN /\ tasks' = [tasks EXCEPT ![t] = EndTask(@, "panic")]
                /\ mut' = t
           ELSE /\ tasks' = [tasks EXCEPT ![t].pc = "InReport",
                                          ![t].labels = lbls]
                /\ mut' = t
    /\ UNCHANGED <<call, config, tagLabels, pc, allMetrics, created, exporter, prom,
                   metricNames, initErr, loop, err, done, hist>>

\* Report does not take the lock
ReportEnter_noLock(t) ==
    /\ tasks[t].pc = "Report"
    /\ LET lbls == reportLabels(t)
       IN  IF ~labelsMatch(labels, lbls)
           THEN /\ tasks' = [tasks EXCEPT ![t] = EndTask(@, "dropped")]
                /\ mut' = mut
           ELSE IF ~tasks[t].measures.ok
           THEN /\ tasks' = [tasks EXCEPT ![t] = EndTask(@, "panic")]
                /\ mut' = mut
           ELSE /\ tasks' = [tasks EXCEPT ![t].pc = "InReport",
                                          ![t].labels = lbls]
                /\ mut' = t
    /\ UNCHANGED <<call, config, tagLabels, pc, allMetrics, created, exporter, prom,
                   metricNames, initErr, loop, err, done, hist>>

\* the return for a label mismatch leaves the lock taken
ReportEnter_lockKeptOnMismatch(t) ==
    /\ tasks[t].pc = "Report"
    /\ mut = 0
    /\ LET lbls == reportLabels(t)
       IN  IF ~labelsMatch(labels, lbls)
           THEN /\ tasks' = [tasks EXCEPT ![t] = EndTask(@, "dropped")]
                /\ mut' = t
           ELSE IF ~tasks[t].measures.ok
           THEN /\ tasks' = [tasks EXCEPT ![t] = EndTask(@, "panic")]
                /\ mut' = 0
           ELSE /\ tasks' = [tasks EXCEPT ![t].pc = "InReport",
                                          ![t].labels = lbls]
                /\ mut' = t
    /\ UNCHANGED <<call, config, tagLabels, pc, allMetrics, created, exporter, prom,
                   metricNames, initErr, loop, err, done, hist>>

\* a Report dropped for a label mismatch deletes the points of its component
ReportEnter_deletesOnMismatch(t) ==
    /\ tasks[t].pc = "Report"
    /\ mut = 0
    /\ LET lbls == reportLabels(t)
       IN  IF ~labelsMatch(labels, lbls)
           THEN /\ tasks' = [tasks EXCEPT ![t] = EndTask(@, "dropped")]
                /\ mut' = 0
                /\ points' = [k \in DOMAIN points |->
                                 [a \in {b \in DOMAIN points[k] :
                                            b[componentNameLabel] #
                                                tasks[t].component.Key} |->
                                     points[k][a]]]
           ELSE IF ~tasks[t].measures.ok
           THEN /\ tasks' = [tasks EXCEPT ![t] = EndTask(@, "panic")]
                /\ mut' = 0
                /\ points' = points
           ELSE /\ tasks' = [tasks EXCEPT ![t].pc = "InReport",
                                          ![t].labels = lbls]
                /\ mut' = t
                /\ points' = points
    /\ UNCHANGED <<call, config, tagLabels, pc, allMetrics, created, labels,
                   metrics, componentLabels, prom, metricNames, initErr, loop,
                   err, done, hist>>

\* Lock, fillDefaults, filterSupported and the length check.  A mismatch
\* returns (the deferred Unlock runs); nil measures panic at
\* measures.Component.Measures (the deferred Unlock runs, the goroutine's
\* recover ends it); otherwise the loop over the measures starts
ReportEnter(t) ==
    /\ tasks[t].pc = "Report"
    /\ mut = 0
    /\ LET lbls == reportLabels(t)
       IN  IF ~labelsMatch(labels, lbls)
           THEN /\ tasks' = [tasks EXCEPT ![t] = EndTask(@, "dropped")]
                /\ mut' = 0
           ELSE IF ~tasks[t].measures.ok
           THEN /\ tasks' = [tasks EXCEPT ![t] = EndTask(@, "panic")]
                /\ mut' = 0
           ELSE /\ tasks' = [tasks EXCEPT ![t].pc = "InReport",
                                          ![t].labels = lbls]
                /\ mut' = t
    /\ UNCHANGED <<call, config, tagLabels, pc, allMetrics, created, exporter, prom,
                   metricNames, initErr, loop, err, done, hist>>

\* the Report of a goroutine writes nothing once a goroutine started after it
\* has reported
ReportReturn_latestTickWins(t) ==
    /\ tasks[t].pc = "InReport"
    /\ mut = t
    /\ LET r == reportFrom(metrics, tasks[t].component.Key, tasks[t].labels,
                           tasks[t].measures.Measures, 1,
                           [componentLabels |-> componentLabels,
                            points |-> points, setKinds |-> {}])
       IN  IF \E u \in (t + 1)..Len(tasks) : tasks[u].res = "reported"
           THEN /\ componentLabels' = componentLabels
                /\ points' = points
                /\ hist' = hist
           ELSE /\ componentLabels' = r.componentLabels
                /\ points' = r.points
                /\ hist' = MapPut(hist, tasks[t].component.Key,
                                  [labels |-> tasks[t].labels,
                                   kinds |-> r.setKinds])
    /\ mut' = 0
    /\ tasks' = [tasks EXCEPT ![t] = EndTask(@, "reported")]
    /\ UNCHANGED <<call, config, tagLabels, pc, allMetrics, created, labels, metrics,
                   prom, metricNames, initErr, loop, err, done>>

\* the loop over measures.Component.Measures, then Report returns and the
\* deferred Unlock runs
ReportReturn(t) ==
    /\ tasks[t].pc = "InReport"
    /\ mut = t
    /\ LET r == reportFrom(metrics, tasks[t].component.Key, tasks[t].labels,
                           tasks[t].measures.Measures, 1,
                           [componentLabels |-> componentLabels,
                            points |-> points, setKinds |-> {}])
       IN  /\ componentLabels' = r.componentLabels
           /\ points' = r.points
           /\ hist' = MapPut(hist, tasks[t].component.Key,
                             [labels |-> tasks[t].labels, kinds |-> r.setKinds])
    /\ mut' = 0
    /\ tasks' = [tasks EXCEPT ![t] = EndTask(@, "reported")]
    /\ UNCHANGED <<call, config, tagLabels, pc, allMetrics, created, labels, metrics,
                   prom, metricNames, initErr, loop, err, done>>

Next ==
    \/ GetMetricsFails
    \/ GetMetricsReturns
    \/ InitMetrics
    \/ Cancel
    \/ LoopReturns
    \/ TimerFires
    \/ SearchComponentsFails
    \/ SearchComponentsReturns
    \/ \E t \in Tasks : GetComponentFails(t)
    \/ \E t \in Tasks : GetComponentReturns(t)
    \/ \E t \in Tasks : GetMeasuresFails(t)
    \/ \E t \in Tasks : GetMeasuresReturns(t)
    \/ \E t \in Tasks : ReportEnter(t)
    \/ \E t \in Tasks : ReportReturn(t)

Spec == Init /\ [][Next]_vars

\* The timer of the loop fires and the request of the callback returns: the
\* select of the loop takes one of its cases, and a callback that was started
\* ends
FairSpec ==
    /\ Spec
    /\ WF_vars(TimerFires \/ LoopReturns)
    /\ WF_vars(SearchComponentsFails \/ SearchComponentsReturns)

\* The select of the loop chooses among its ready cases at random: a closed
\* done channel that is ready again and again is taken at last
CancelSpec ==
    /\ FairSpec
    /\ SF_vars(LoopReturns)

\* ------------------------------------------------------------------------
\* The pure functions, called on their own
\* ------------------------------------------------------------------------
\* the variables of the running program
program == <<tagKeys, tagLabels, tagSeparator, exportEmptyLabels, pc,
             allMetrics, created, labels, metrics, componentLabels, points,
             prom, mut, metricNames, initErr, loop, err, done, tasks, hist>>

\* the characters of the strings escapeName is called with: a Z _ : - 0
Alphabet == {97, 90, 95, 58, 45, 48}

Strings(n) == UNION {[1..k -> Alphabet] : k \in 0..n}

\* the Value and Period.Value strings of a measure:
\* "" "1" "0" "true" "false" "T" "abc" "7" "12"
ValueStrings ==
    {<<>>, <<49>>, <<48>>, <<116, 114, 117, 101>>, <<102, 97, 108, 115, 101>>,
     <<84>>, <<97, 98, 99>>, <<55>>, <<49, 50>>}

\* the metric types of the registered metrics
MetricTypes == {"BOOL", "INT", "STRING"}

\* an exporter with the metrics alert (BOOL) and bugs (INT) and no point yet
FnMetrics == [k \in {"alert", "bugs"} |->
                 [metricType |-> IF k = "alert" THEN "BOOL" ELSE "INT"]]
FnPoints == [k \in {"alert", "bugs"} |-> EmptyMap]
FnLabels == [k \in {componentNameLabel} |-> <<112, 49>>]

\* the calls: escapeName(n), getFloatValue(mType, measure), one iteration of
\* the loop of Report for a measure, and executeGet for a response
FnCalls ==
    {[fn |-> "escapeName", n |-> n] : n \in Strings(MaxLen)}
    \cup {[fn |-> "getFloatValue", mType |-> ty, measure |-> Measure("m", v, pv)] :
             ty \in MetricTypes, v \in ValueStrings, pv \in ValueStrings}
    \cup {[fn |-> "reportMeasure", measure |-> Measure(k, v, pv)] :
             k \in {"alert", "bugs", "coverage"},
             v \in ValueStrings, pv \in ValueStrings}
    \cup {[fn |-> "executeGet", status |-> st, body |-> b] :
             st \in Statuses, b \in Bodies}

InitFn ==
    /\ InitConfig(CHOOSE c \in Configs : ~c.exportEmptyLabels)
    /\ InitState
    /\ arg \in FnCalls
    /\ out = <<>>

\* escapeName on the argument, then on its own result
CallEscapeName ==
    /\ arg.fn = "escapeName"
    /\ Len(out) < 2
    /\ out' = Append(out, escapeName(IF out = <<>> THEN arg.n ELSE out[Len(out)]))
    /\ UNCHANGED <<arg, program>>

CallGetFloatValue ==
    /\ arg.fn = "getFloatValue"
    /\ out = <<>>
    /\ out' = <<getFloatValue(arg.mType, arg.measure)>>
    /\ UNCHANGED <<arg, program>>

CallReportMeasure ==
    /\ arg.fn = "reportMeasure"
    /\ out = <<>>
    /\ out' = <<reportMeasure(FnMetrics, EmptyMap, FnPoints, <<112, 49>>,
                              FnLabels, arg.measure)>>
    /\ UNCHANGED <<arg, program>>

CallExecuteGet ==
    /\ arg.fn = "executeGet"
    /\ out = <<>>
    /\ out' = <<executeGet(arg.status, arg.body)>>
    /\ UNCHANGED <<arg, program>>

NextFn ==
    \/ CallEscapeName
    \/ CallGetFloatValue
    \/ CallReportMeasure
    \/ CallExecuteGet

SpecFn == InitFn /\ [][NextFn]_vars

\* ------------------------------------------------------------------------
\* Report, called one call after the other on an exporter whose metrics are
\* registered (Report calls exclude each other, so any run of the program
\* applies them to the exporter in some order)
\* ------------------------------------------------------------------------
\* the catalog the exporter was initialised with: bugs (INT), alert (BOOL)
ReportCatalog ==
    <<Metric("bugs", "DATA"), Metric("bugs", "INT"), Metric("bugs", "BOOL"),
      Metric("alert", "BOOL")>>

\* the state in which Schedule has returned nil and the loop waits
InitReport ==
    /\ \E c \in Configs :
          /\ ~HasDuplicates(c.tagKeys)
          /\ tagKeys = c.tagKeys
          /\ tagLabels = EscapeAll(c.tagKeys)
          /\ tagSeparator = c.tagSeparator
          /\ exportEmptyLabels = c.exportEmptyLabels
          /\ labels = NewPrometheusExporter(c.tagKeys)
          /\ LET r == registerMetrics(ReportCatalog,
                                      NewPrometheusExporter(c.tagKeys),
                                      EmptyMap, PromInitial)
             IN  /\ metrics = r.metrics
                 /\ prom = r.prom
                 /\ metricNames = r.mNames
                 /\ initErr = r.err
                 /\ points = [k \in DOMAIN r.metrics |-> EmptyMap]
    /\ pc = "returned"
    /\ allMetrics = ReportCatalog
    /\ created = TRUE
    /\ componentLabels = EmptyMap
    /\ mut = 0
    /\ loop = "waiting"
    /\ err = FALSE
    /\ done = FALSE
    /\ tasks = <<>>
    /\ hist = EmptyMap
    /\ arg = [fn |-> "Report"]
    /\ out = <<>>

\* the measures argument of Report: nil, or one of the measure lists
ReportMeasures ==
    {NoMeasures} \cup {[ok |-> TRUE, Measures |-> ms] : ms \in MeasureLists}

\* one call Report(component, labels, measures), from Lock to Unlock; out is
\* the log of the calls: the arguments, how the call ended, the metrics whose
\* point it set, and the memo and the points it found
CallReport ==
    /\ arg.fn = "Report"
    /\ Len(out) < MaxReports
    /\ \E c \in ComponentKeys, tags \in TagLists, m \in ReportMeasures :
          LET lbls == filterSupported(labels,
                          fillDefaults(labels, exportEmptyLabels,
                                       tagsToLabels(tagSeparator, tags), c))
              entry == [component |-> c, labels |-> lbls, measures |-> m,
                        memo |-> componentLabels, points |-> points]
          IN  IF ~labelsMatch(labels, lbls)
              THEN /\ out' = Append(out, [res |-> "dropped", kinds |-> {}]
                                              @@ entry)
                   /\ UNCHANGED <<componentLabels, points, hist>>
              ELSE IF ~m.ok
              THEN /\ out' = Append(out, [res |-> "panic", kinds |-> {}]
                                              @@ entry)
                   /\ UNCHANGED <<componentLabels, points, hist>>
              ELSE LET r == reportFrom(metrics, c, lbls, m.Measures, 1,
                                       [componentLabels |-> componentLabels,
                                        points |-> points, setKinds |-> {}])
                   IN  /\ componentLabels' = r.componentLabels
                       /\ points' = r.points
                       /\ hist' = MapPut(hist, c, [labels |-> lbls,
                                                   kinds |-> r.setKinds])
                       /\ out' = Append(out, [res |-> "reported",
                                              kinds |-> r.setKinds] @@ entry)
    /\ UNCHANGED <<arg, config, tagLabels, pc, allMetrics, created, labels,
                   metrics, prom, mut, metricNames, initErr, loop, err, done,
                   tasks>>

NextReport == CallReport

SpecReport == InitReport /\ [][NextReport]_vars

\* ------------------------------------------------------------------------
\* Properties
\* ------------------------------------------------------------------------
\* the live points of metric k whose component label is c
PointsOf(pts, k, c) ==
    {a \in DOMAIN pts[k] :
        componentNameLabel \in DOMAIN a /\ a[componentNameLabel] = c}

\* task t enters Report in this step (it takes the Lock and passes, or fails,
\* the length check)
Enters(t) == tasks[t].pc = "Report" /\ tasks'[t].pc # "Report"

\* the Report of task t returns from its loop in this step
Returns(t) == tasks[t].pc = "InReport" /\ tasks'[t].pc = "done"

\* C1: when an accepted Report for component c with labels L2 returns and the
\* accepted Report for c before it had other labels L1, then for every metric
\* whose point was set by both, the point keyed by L1 is gone and the point
\* keyed by L2 is the only one of (metric, c).
C1_StalePointRetired ==
    [][\A t \in Tasks :
          Returns(t) =>
              LET c == tasks[t].component.Key
              IN  (c \in DOMAIN hist /\ hist[c].labels # tasks[t].labels) =>
                      \A k \in hist[c].kinds \cap hist'[c].kinds :
                          /\ hist[c].labels \notin DOMAIN points'[k]
                          /\ PointsOf(points', k, c) = {tasks[t].labels}]_vars

\* C2: invariant I4 in every reachable state: each (registered metric,
\* component) pair has at most one live point.
C2_OneLivePointPerComponent ==
    \A k \in DOMAIN points : \A c \in ComponentKeys :
        Cardinality(PointsOf(points, k, c)) <= 1

\* the names a Report keeps: those supplied, the component label and, with
\* exportEmptyLabels, every name of the LabelSet, less those outside the LabelSet
KeptNames(t) ==
    ((DOMAIN tasks[t].labels) \cup {componentNameLabel}
        \cup (IF exportEmptyLabels THEN Range(labels) ELSE {}))
    \cap Range(labels)

\* C3: a Report whose labels, filled and filtered, are not |LabelSet| many is
\* a no-op: it returns at once, no point is set or deleted, the memo and the
\* registered metrics are unchanged.
C3_MismatchIsNoOp ==
    [][\A t \in Tasks :
          (Enters(t) /\ Cardinality(KeptNames(t)) # Len(labels)) =>
              /\ tasks'[t].res = "dropped"
              /\ mut' = 0
              /\ points' = points
              /\ componentLabels' = componentLabels
              /\ metrics' = metrics]_vars

C3_Witness ==
    /\ \E t \in Tasks : tasks[t].res = "dropped"
    /\ \E k \in DOMAIN points : points[k] # EmptyMap

\* C4: every point carries exactly the names of the LabelSet, and a Report
\* passes the length check exactly when the names it keeps are the LabelSet.
C4_PointNamesAreLabelSet ==
    [][/\ \A k \in DOMAIN points' : \A a \in DOMAIN points'[k] :
              DOMAIN a = Range(labels')
       /\ \A t \in Tasks :
              Enters(t) =>
                  ((tasks'[t].res # "dropped") <=> (KeptNames(t) = Range(labels)))
       /\ \A t \in Tasks :
              (Enters(t) /\ tasks'[t].pc = "InReport") =>
                  DOMAIN tasks'[t].labels = Range(labels)]_vars

\* a point is live, and a Report that supplied a name outside the LabelSet
\* was accepted
C4_Witness ==
    /\ \E k \in DOMAIN points : points[k] # EmptyMap
    /\ \E t \in Tasks :
          /\ tasks[t].pc = "InReport"
          /\ \E tag \in Range(tasks[t].component.Tags) :
                 LET parts == SplitN2(tag, tagSeparator)
                 IN  Len(parts) = 2 /\ escapeName(parts[1]) \notin Range(labels)

\* the catalog entries InitMetrics registers: not of type DATA, and no earlier
\* entry of the same key is registered before it
NewIdx(cat, mets) ==
    {i \in 1..Len(cat) :
        /\ cat[i].Type # "DATA"
        /\ cat[i].Key \notin DOMAIN mets
        /\ \A j \in 1..(i - 1) : cat[j].Key = cat[i].Key => cat[j].Type = "DATA"}

NthNew(cat, mets, n) ==
    CHOOSE i \in NewIdx(cat, mets) :
        Cardinality({j \in NewIdx(cat, mets) : j <= i}) = n

ForeignNames == {d.name : d \in PromInitial}

\* C5: InitMetrics without a registration failure returns the keys of the
\* entries that are not yet registered and not of type DATA, once each and in
\* catalog order, and registers a series for exactly those keys.
C5_InitMetricsReturnsNewSupportedKeys ==
    (created /\ ~initErr) =>
        /\ Len(metricNames) = Cardinality(NewIdx(allMetrics, EmptyMap))
        /\ \A n \in 1..Len(metricNames) :
               metricNames[n] = allMetrics[NthNew(allMetrics, EmptyMap, n)].Key
        /\ DOMAIN metrics = Range(metricNames)
        /\ {d.name : d \in prom \ PromInitial} = Range(metricNames)
        /\ DOMAIN points = Range(metricNames)

\* the catalog [bugs:INT, coverage:DATA] registered exactly [bugs]
C5_Witness ==
    /\ created /\ ~initErr
    /\ allMetrics = <<Metric("bugs", "INT"), Metric("coverage", "DATA")>>
    /\ metricNames = <<"bugs">>
    /\ DOMAIN metrics = {"bugs"}

\* C6: at most one registered series per key; a key that occurs twice keeps
\* its first registration and its type, and raises no error.
C6_OneSeriesPerKey ==
    /\ \A d1, d2 \in prom : d1.name = d2.name => d1 = d2
    /\ created =>
           \A k \in DOMAIN metrics :
               \E i \in NewIdx(allMetrics, EmptyMap) :
                   /\ allMetrics[i].Key = k
                   /\ metrics[k].metricType = allMetrics[i].Type
    /\ initErr =>
           \/ \E i \in 1..Len(allMetrics) : allMetrics[i].Key \in ForeignNames
           \/ HasDuplicates(labels)

\* a catalog with the key bugs as INT and then as BOOL was registered
C6_Witness ==
    /\ created /\ ~initErr
    /\ \E i, j \in 1..Len(allMetrics) :
           /\ i < j
           /\ allMetrics[i].Key = allMetrics[j].Key
           /\ allMetrics[i].Type = "INT" /\ allMetrics[j].Type = "BOOL"
           /\ metrics[allMetrics[i].Key].metricType = "INT"

\* the entries whose name is in use in the default registry
Collides(i) ==
    allMetrics[i].Type # "DATA" /\ allMetrics[i].Key \in ForeignNames

\* C7: when the registration of a series fails because its name is in use,
\* InitMetrics returns an error and no keys, no later entry is processed, and
\* Schedule returns the error without starting the polling loop.
C7_NameInUseAbortsInit ==
    (created /\ ~HasDuplicates(labels)
        /\ \E i \in 1..Len(allMetrics) : Collides(i)) =>
        LET k == CHOOSE i \in 1..Len(allMetrics) :
                     Collides(i) /\ \A j \in 1..(i - 1) : ~Collides(j)
        IN  /\ initErr
            /\ metricNames = <<>>
            /\ DOMAIN metrics =
                   {allMetrics[j].Key : j \in {x \in 1..(k - 1) :
                                                 allMetrics[x].Type # "DATA"}}
            /\ pc = "failedInitMetrics"
            /\ loop = "notStarted"
            /\ tasks = <<>>

\* the registration failed at the second entry, after bugs was registered
C7_Witness ==
    /\ created /\ initErr /\ ~HasDuplicates(labels)
    /\ pc = "failedInitMetrics"
    /\ DOMAIN metrics = {"bugs"}

Count(seq, x) == Cardinality({i \in 1..Len(seq) : seq[i] = x})

\* C8: the step that constructs the exporter and registers the series leaves
\* the LabelSet as the sorted sequence of the escaped configured tag keys plus
\* "component", and every series it registers has that LabelSet; from then on
\* no step changes the LabelSet, the configured keys or the registered series.
C8_LabelSetFixed ==
    [][/\ (~created /\ created') =>
              LET src == Append(EscapeAll(tagKeys'), componentNameLabel)
              IN  /\ Len(labels') = Len(src)
                  /\ \A x \in Range(src) : Count(labels', x) = Count(src, x)
                  /\ \A i \in 1..(Len(labels') - 1) :
                         ~StrLess(labels'[i + 1], labels'[i])
                  /\ \A d \in prom' \ PromInitial : d.labelNames = labels'
       /\ created =>
              /\ created'
              /\ labels' = labels
              /\ tagKeys' = tagKeys
              /\ prom' = prom]_vars

\* TAG_KEYS "z,a-" became "a_", "component", "z", and a series is registered
C8_Witness ==
    /\ created
    /\ tagKeys = <<(<<122>>), <<97, 45>>>>
    /\ labels = <<(<<97, 95>>), componentNameLabel, <<122>>>>
    /\ prom # PromInitial
    /\ \E t \in Tasks : tasks[t].res = "reported"

\* C9: with exportEmptyLabels a Report is never dropped for its label count:
\* every name of the LabelSet that the tags did not give is "", the names they
\* gave keep their values, and the points it sets carry these labels.
C9_EmptyLabelsFilled ==
    [][\A t \in Tasks :
          /\ (Enters(t) /\ exportEmptyLabels) =>
                 /\ tasks'[t].res # "dropped"
                 /\ tasks'[t].pc = "InReport" =>
                        \A l \in Range(labels) \ {componentNameLabel} :
                            tasks'[t].labels[l] =
                                IF l \in DOMAIN tasks[t].labels
                                THEN tasks[t].labels[l] ELSE <<>>
          /\ (Returns(t) /\ exportEmptyLabels) =>
                 \A k \in hist'[tasks[t].component.Key].kinds :
                     tasks[t].labels \in DOMAIN points'[k]]_vars

\* a point whose "a_" label is empty is exported
C9_Witness ==
    /\ exportEmptyLabels
    /\ \E k \in DOMAIN points : \E a \in DOMAIN points[k] :
           a[<<97, 95>>] = <<>> /\ a[<<122>>] # <<>>

\* C10: every point a Report sets has the component key of the call as its
\* component label, whatever the tags are.
C10_ComponentLabelIsKey ==
    [][\A t \in Tasks :
          /\ (Enters(t) /\ tasks'[t].pc = "InReport") =>
                 tasks'[t].labels[componentNameLabel] = tasks[t].component.Key
          /\ Returns(t) =>
                 LET c == tasks[t].component.Key
                 IN  \A k \in DOMAIN points' :
                         /\ k \in hist'[c].kinds =>
                                /\ tasks[t].labels \in DOMAIN points'[k]
                                /\ tasks[t].labels[componentNameLabel] = c
                         /\ \A a \in (DOMAIN points'[k]) \ (DOMAIN points[k]) :
                                a[componentNameLabel] = c]_vars

\* the last Report of a component whose tags were "z#y", "component#x",
\* "a-#y#x" set a point
C10_Witness ==
    \E c \in DOMAIN hist :
        /\ hist[c].labels[<<122>>] = <<121>>
        /\ \E k \in hist[c].kinds : hist[c].labels \in DOMAIN points[k]

\* the string a measure is converted from
Selected(m) == IF m.Value # <<>> THEN m.Value ELSE m.PeriodValue

\* a measure the loop of Report skips: its metric is not registered, or its
\* metric is not of type BOOL and its string is no number
Skipped(m) ==
    \/ m.Metric \notin DOMAIN metrics
    \/ metrics[m.Metric].metricType # "BOOL" /\ ~IsDecimal(Selected(m))

\* C11: when an accepted Report returns, every measure that is not skipped
\* has its point set under the labels of the call, whatever the measures
\* before it were, and a metric all of whose measures were skipped has the
\* points it had before.
C11_SkippedMeasureOnly ==
    [][\A t \in Tasks :
          Returns(t) =>
              LET ms == tasks[t].measures.Measures
              IN  /\ DOMAIN points' = DOMAIN points
                  /\ \A i \in 1..Len(ms) :
                         IF Skipped(ms[i])
                         THEN (ms[i].Metric \in DOMAIN points
                                 /\ \A j \in 1..Len(ms) :
                                        ms[j].Metric = ms[i].Metric => Skipped(ms[j]))
                              => points'[ms[i].Metric] = points[ms[i].Metric]
                         ELSE tasks[t].labels \in DOMAIN points'[ms[i].Metric]]_vars

\* a Report with bugs "abc", alert and coverage returned: bugs is registered
\* and was skipped, alert has its point
C11_Witness ==
    /\ "bugs" \in DOMAIN metrics
    /\ \E c \in DOMAIN hist :
           /\ hist[c].kinds = {"alert"}
           /\ hist[c].labels \in DOMAIN points["alert"]
           /\ hist[c].labels \notin DOMAIN points["bugs"]

\* C12: getFloatValue for a metric of type BOOL returns no error: 1 for a
\* string that parses as true, 0 for one that parses as false and 0 for one
\* that does not parse; so the iteration of Report for a measure of a
\* registered BOOL metric sets its point, to that value.
C12_BoolNeverFails ==
    /\ (arg.fn = "getFloatValue" /\ out # <<>> /\ arg.mType = "BOOL") =>
           /\ ~out[1].err
           /\ Selected(arg.measure) \in ParseBoolTrue => out[1].val = 1
           /\ Selected(arg.measure) \in ParseBoolFalse => out[1].val = 0
           /\ Selected(arg.measure) \notin ParseBoolTrue \cup ParseBoolFalse
                  => out[1].val = 0
    /\ (arg.fn = "reportMeasure" /\ out # <<>> /\ arg.measure.Metric = "alert") =>
           /\ out[1].set
           /\ FnLabels \in DOMAIN out[1].points["alert"]
           /\ out[1].points["alert"][FnLabels] =
                  (IF Selected(arg.measure) \in ParseBoolTrue THEN 1 ELSE 0)

\* the measure alert "abc" had its point set to 0
C12_Witness ==
    /\ arg.fn = "reportMeasure" /\ out # <<>>
    /\ arg.measure.Metric = "alert"
    /\ arg.measure.Value = <<97, 98, 99>>
    /\ out[1].points["alert"][FnLabels] = 0

\* C13: getFloatValue converts the direct value when it is not empty and the
\* period value only when the direct value is empty; for a metric that is not
\* of type BOOL a string of digits gives its number and every other string,
\* the empty one included, gives an error.
C13_DirectValueFirst ==
    (arg.fn = "getFloatValue" /\ out # <<>>) =>
        LET m == arg.measure
            sel == IF m.Value # <<>> THEN m.Value ELSE m.PeriodValue
        IN  /\ arg.mType = "BOOL" =>
                   out[1].val = (IF sel \in ParseBoolTrue THEN 1 ELSE 0)
            /\ arg.mType # "BOOL" =>
                   /\ IsDecimal(sel) => ~out[1].err /\ out[1].val = DecimalValue(sel)
                   /\ ~IsDecimal(sel) => out[1].err
                   /\ (m.Value = <<>> /\ m.PeriodValue = <<>>) => out[1].err

\* an INT measure with value "12" and period "7" gave 12
C13_Witness ==
    /\ arg.fn = "getFloatValue" /\ out # <<>>
    /\ arg.mType = "INT"
    /\ arg.measure.Value = <<49, 50>> /\ arg.measure.PeriodValue = <<55>>
    /\ ~out[1].err /\ out[1].val = 12

\* C14: escapeName is idempotent, and for every string, the empty one
\* included, its result is not empty, holds only letters, "_" and ":", and is
\* the argument with every other character replaced by "_".
C14_EscapeGivesName ==
    (arg.fn = "escapeName" /\ out # <<>>) =>
        /\ out[1] # <<>>
        /\ Len(out[1]) = Len(arg.n)
        /\ \A i \in 1..Len(out[1]) :
               /\ out[1][i] \in (65..90) \cup (97..122) \cup {95, 58}
               /\ out[1][i] = (IF arg.n[i] \in (65..90) \cup (97..122) \cup {95, 58}
                               THEN arg.n[i] ELSE 95)
        /\ Len(out) = 2 => out[2] = out[1]

\* C15: in an accepted Report every label but "component" has the value of
\* the last tag whose part left of the first separator escapes to the label's
\* name, that value being all of the tag right of that first separator,
\* unescaped; a label no such tag gives is "" (with exportEmptyLabels).  So a
\* tag without the separator, or with a left part outside the LabelSet, gives
\* no value.
C15_TagSplitAtFirstSeparator ==
    [][\A t \in Tasks :
          (Enters(t) /\ tasks'[t].pc = "InReport") =>
              LET tags == tasks[t].component.Tags
                  Pos(i) == IndexOf(tags[i], tagSeparator)
                  Gives(i, l) ==
                      /\ Pos(i) > 0
                      /\ escapeName(SubSeq(tags[i], 1, Pos(i) - 1)) = l
                  Right(i) ==
                      SubSeq(tags[i], Pos(i) + Len(tagSeparator), Len(tags[i]))
                  lbls == tasks'[t].labels
              IN  /\ DOMAIN lbls \subseteq Range(labels)
                  /\ \A l \in (DOMAIN lbls) \ {componentNameLabel} :
                         IF \E i \in 1..Len(tags) : Gives(i, l)
                         THEN \E i \in 1..Len(tags) :
                                  /\ Gives(i, l)
                                  /\ \A j \in (i + 1)..Len(tags) : ~Gives(j, l)
                                  /\ lbls[l] = Right(i)
                         ELSE exportEmptyLabels /\ lbls[l] = <<>>]_vars

\* the tag "a-#y#x" gave the label a_ = "y#x" of an exported point
C15_Witness ==
    \E k \in DOMAIN points : \E a \in DOMAIN points[k] :
        a[<<97, 95>>] = <<121, 35, 120>>

\* C16: when the catalog fetch failed, InitMetrics returned an error or
\* InitMetrics registered no metric, Schedule has returned an error and the
\* polling loop was never started: no tick, no reporting goroutine, no point.
C16_ScheduleFailsFast ==
    (pc = "failedGetMetrics" \/ initErr \/ (created /\ metricNames = <<>>)) =>
        /\ pc \in {"failedGetMetrics", "failedInitMetrics", "failedNoMetrics"}
        /\ loop = "notStarted"
        /\ tasks = <<>>
        /\ hist = EmptyMap
        /\ componentLabels = EmptyMap
        /\ \A k \in DOMAIN points : points[k] = EmptyMap

\* the catalog held only a DATA metric: nothing registered, Schedule failed
C16_Witness ==
    /\ pc = "failedNoMetrics"
    /\ created /\ ~initErr
    /\ allMetrics # <<>>
    /\ done

\* C17: the polling loop is started once, by the step in which Schedule
\* returns nil, and never left for the initialisation again: once it is
\* started no step fetches the catalog, registers a metric or changes what
\* Schedule returned.
C17_InitializedOnce ==
    [][/\ (loop = "notStarted" /\ loop' # "notStarted") =>
              pc = "InitMetrics" /\ pc' = "returned" /\ loop' = "waiting"
       /\ loop # "notStarted" =>
              /\ loop' # "notStarted"
              /\ pc = "returned" /\ pc' = "returned"
              /\ allMetrics' = allMetrics
              /\ metricNames' = metricNames
              /\ metrics' = metrics
              /\ prom' = prom
              /\ labels' = labels]_vars

\* a second tick is running while a goroutine of an earlier one has reported
C17_Witness ==
    /\ loop = "callback"
    /\ \E t \in Tasks : tasks[t].res = "reported"
    /\ pc = "returned"

\* C18: the polling loop ends only by taking the case of the closed done
\* channel; a callback whose SearchComponents failed starts no goroutine and
\* leaves those running alone, and every callback, failed or not, ends with
\* the timer armed again, after which the next callback runs unless the loop
\* takes the case of done.
C18_LoopEndsOnlyOnCancel ==
    /\ [][/\ (loop \in {"waiting", "callback"} /\ loop' \notin {"waiting", "callback"})
               => (done /\ loop = "waiting" /\ loop' = "returned")
          /\ (loop = "callback" /\ loop' # "callback" /\ err')
               => (tasks' = tasks /\ loop' = "waiting" /\ pc' = pc)
          /\ loop = "returned" => loop' = "returned"]_vars
    /\ (loop = "callback") ~> (loop = "waiting")
    /\ (loop = "waiting") ~> (loop = "callback" \/ loop = "returned")

\* the callback of a tick runs after the callback of the tick before failed
C18_Witness ==
    /\ loop = "callback"
    /\ err
    /\ ~done

\* C19: a reporting goroutine whose GetComponent or GetMeasures failed ends
\* without calling Report: every goroutine that enters Report has a component
\* and measures.
C19_FailedFetchSkipsReport ==
    [][\A t \in Tasks :
          Enters(t) => (tasks[t].component.ok /\ tasks[t].measures.ok)]_vars

\* a goroutine ends in a recovered panic in this step
Panics(t) == tasks[t].pc # "done" /\ tasks'[t].res = "panic"

\* C20: a panic in a reporting goroutine ends that goroutine only: the step
\* leaves the loop, what Schedule returned, the exporter, every other
\* goroutine and the holder of the lock as they are, and it happens only to a
\* goroutine whose own fetch left a nil component or nil measures.  No
\* goroutine that ended holds the lock: the lock is free or held by a
\* goroutine inside Report, so every other goroutine can still reach Report.
C20_PanicEndsOneTaskOnly ==
    [][/\ \A t \in Tasks :
              Panics(t) =>
                  /\ ~tasks[t].component.ok \/ ~tasks[t].measures.ok
                  /\ loop' = loop /\ pc' = pc /\ done' = done
                  /\ mut' = mut
                  /\ points' = points /\ componentLabels' = componentLabels
                  /\ metrics' = metrics
                  /\ \A u \in Tasks \ {t} : tasks'[u] = tasks[u]
       /\ mut' # 0 => (mut' \in 1..Len(tasks') /\ tasks'[mut'].pc = "InReport")
       /\ \A u \in 1..Len(tasks') : tasks'[u].pc = "InReport" => mut' = u]_vars

\* one goroutine ended in a panic and another one set its points
C20_Witness ==
    /\ \E t \in Tasks : tasks[t].res = "panic"
    /\ \E t \in Tasks : tasks[t].res = "reported"
    /\ \E k \in DOMAIN points : points[k] # EmptyMap
    /\ loop # "returned"

\* C21: Report calls exclude each other: at most one goroutine is between
\* the Lock of Report and its return, it is the holder of the lock, no
\* goroutine enters Report while another one is inside, and the points and
\* the memo change only in the step in which the holder's Report returns.
C21_ReportsExclusive ==
    [][/\ \A t, u \in 1..Len(tasks') :
              (tasks'[t].pc = "InReport" /\ tasks'[u].pc = "InReport") => t = u
       /\ \A t \in Tasks :
              Enters(t) =>
                  /\ mut = 0
                  /\ \A u \in Tasks : tasks[u].pc # "InReport"
       /\ \A t \in Tasks : Returns(t) => mut = t
       /\ (created /\ <<points, componentLabels>>' # <<points, componentLabels>>)
              => \E t \in Tasks : Returns(t) /\ mut = t]_vars

\* one goroutine is inside Report while another one waits for the lock
C21_Witness ==
    \E t, u \in Tasks :
        /\ tasks[t].pc = "InReport" /\ mut = t
        /\ tasks[u].pc = "Report"

\* C22: every write to the state of the exporter (pe.metrics written by
\* registerMetrics, the memo pe.componentLabels and the points of the series)
\* is made by a writer that holds the exclusive lock pe.mut.
C22_WritesHoldExclusiveLock ==
    [][(metrics' # metrics \/ componentLabels' # componentLabels
            \/ points' # points)
          => (mut # 0 /\ \E t \in Tasks : mut = t /\ Returns(t))]_vars

\* C23: once done is closed the loop starts no further tick and returns; it
\* neither waits for the reporting goroutines of earlier ticks nor ends them.
C23_CancelStopsTicks ==
    /\ [][/\ done => ~(loop = "waiting" /\ loop' = "callback")
          /\ (loop # "returned" /\ loop' = "returned") => tasks' = tasks]_vars
    /\ (done /\ loop # "notStarted") ~> (loop = "returned")

\* C24: the memo entry of a component is created by the first Report for it
\* that sets a point, is replaced only by a later Report for it whose labels
\* differ from the entry, and is never removed: the memo changes only when a
\* Report returns that set a point, only in the entry of its component, which
\* then holds the labels of that Report.
C24_MemoLifecycle ==
    [][/\ DOMAIN componentLabels \subseteq DOMAIN componentLabels'
       /\ componentLabels' # componentLabels =>
              \E t \in Tasks :
                  LET c == tasks[t].component.Key
                  IN  /\ Returns(t)
                      /\ hist'[c].kinds # {}
                      /\ c \in DOMAIN componentLabels =>
                             componentLabels[c] # tasks[t].labels
                      /\ componentLabels' =
                             MapPut(componentLabels, c, tasks[t].labels)
       /\ \A t \in Tasks :
              Returns(t) =>
                  LET c == tasks[t].component.Key
                  IN  IF hist'[c].kinds = {}
                      THEN componentLabels' = componentLabels
                      ELSE /\ c \in DOMAIN componentLabels'
                           /\ componentLabels'[c] = tasks[t].labels]_vars

\* the entry of a component was replaced: a point of the component with the
\* labels of an earlier Report is still there
C24_Witness ==
    \E c \in DOMAIN componentLabels : \E k \in DOMAIN points :
        \E a \in DOMAIN points[k] :
            /\ a[componentNameLabel] = c
            /\ a # componentLabels[c]
            /\ componentLabels[c] \in DOMAIN points[k]

\* C25: a tick whose SearchComponents returned starts exactly one goroutine
\* per listed component, in the order of the list, and each of them starts
\* without a component: it reaches GetMeasures and Report only through its
\* own GetComponent, whose tags give its labels, and its GetMeasures asks for
\* exactly the keys InitMetrics returned.  No other step starts a goroutine.
C25_OneFreshTaskPerComponent ==
    [][/\ tasks' # tasks /\ Len(tasks') # Len(tasks) =>
              /\ loop = "callback" /\ loop' = "waiting" /\ ~err'
              /\ \E comps \in ComponentLists :
                     /\ Len(tasks') = Len(tasks) + Len(comps)
                     /\ \A i \in 1..Len(comps) :
                            LET n == tasks'[Len(tasks) + i]
                            IN  /\ n.key = comps[i]
                                /\ n.pc = "GetComponent"
                                /\ n.component = NoComponent
                                /\ n.labels = EmptyMap
              /\ \A t \in Tasks : tasks'[t] = tasks[t]
       /\ (loop = "callback" /\ loop' = "waiting" /\ ~err') =>
              Len(tasks') >= Len(tasks)
       /\ \A t \in Tasks :
              /\ (tasks[t].pc # "GetMeasures" /\ tasks'[t].pc = "GetMeasures") =>
                     /\ tasks[t].pc = "GetComponent"
                     /\ ~tasks[t].component.ok
                     /\ tasks'[t].component.ok
                     /\ tasks'[t].component.Key = tasks[t].key
                     /\ tasks'[t].metricKeys = metricNames
                     /\ metricNames # <<>>
                     /\ Range(metricNames) = DOMAIN metrics
              /\ (tasks[t].pc # "Report" /\ tasks'[t].pc = "Report") =>
                     /\ tasks[t].pc = "GetMeasures"
                     /\ tasks'[t].labels =
                            tagsToLabels(tagSeparator, tasks[t].component.Tags)
              /\ tasks[t].pc = "GetMeasures" =>
                     tasks'[t].component = tasks[t].component]_vars

\* a goroutine of a second tick has fetched other tags for the component
\* than the Report of the first tick had
C25_Witness ==
    \E t \in Tasks :
        /\ tasks[t].pc = "GetMeasures"
        /\ tasks[t].metricKeys = <<"bugs", "alert">>
        /\ tasks[t].key \in DOMAIN hist
        /\ \E l \in DOMAIN hist[tasks[t].key].labels :
               l # componentNameLabel
               /\ (l \notin DOMAIN tagsToLabels(tagSeparator, tasks[t].component.Tags)
                   \/ tagsToLabels(tagSeparator, tasks[t].component.Tags)[l]
                          # hist[tasks[t].key].labels[l])

\* C26: a slow component delays no other: whatever the reporting goroutines
\* are doing, the loop can take its next tick and the callback can return; a
\* goroutine waiting for the answer of GetComponent or GetMeasures can go on
\* when its own answer comes; a goroutine at Report waits for nothing but the
\* lock, and the lock is held only by a goroutine inside Report, which makes
\* no network call: it is at the loop over the measures, and as the holder
\* it can run that loop and return.
C26_SlowComponentDelaysNoOne ==
    [](/\ loop = "waiting" => ENABLED TimerFires
       /\ loop = "callback" => ENABLED SearchComponentsFails
       /\ (loop = "callback" /\ Len(tasks) < MaxTasks) =>
              ENABLED SearchComponentsReturns
       /\ mut # 0 => (mut \in Tasks /\ tasks[mut].pc = "InReport")
       /\ \A t \in Tasks :
              /\ tasks[t].pc = "GetComponent" => ENABLED GetComponentReturns(t)
              /\ tasks[t].pc = "GetMeasures" => ENABLED GetMeasuresReturns(t)
              /\ tasks[t].pc = "Report" =>
                     ((ENABLED ReportEnter(t)) <=>
                          (\A u \in Tasks : tasks[u].pc # "InReport"))
              /\ tasks[t].pc = "InReport" => mut = t)

\* the callback of a later tick runs, and a goroutine has reported, while the
\* goroutine of another component still waits for its GetComponent
C26_Witness ==
    /\ loop = "callback"
    /\ \E t, u \in Tasks :
           /\ t < u
           /\ tasks[t].pc = "GetComponent"
           /\ tasks[u].res = "reported"

\* how far a reporting goroutine is
Stage(p) ==
    CASE p = "GetComponent" -> 1
      [] p = "GetMeasures" -> 2
      [] p = "Report" -> 3
      [] p = "InReport" -> 4
      [] p = "done" -> 5

\* C27: no request is made twice within a tick: every step of a reporting
\* goroutine takes it forward, so it waits for GetComponent once and for
\* GetMeasures once, and a failed request ends the goroutine or takes it on
\* without the answer; a callback makes one SearchComponents, and after a
\* failed one the loop waits for the timer before the next one.
C27_NoRetryWithinTick ==
    [][/\ \A t \in Tasks :
              /\ Stage(tasks'[t].pc) >= Stage(tasks[t].pc)
              /\ tasks'[t] # tasks[t] => Stage(tasks'[t].pc) > Stage(tasks[t].pc)
              /\ (tasks[t].pc = "GetComponent" /\ tasks'[t].pc # "GetComponent"
                     /\ ~tasks'[t].component.ok) => tasks'[t].pc = "done"
              /\ (tasks[t].pc = "GetMeasures" /\ tasks'[t].pc # "GetMeasures"
                     /\ ~tasks'[t].measures.ok) => tasks'[t].pc = "Report"
       /\ loop = "callback" =>
              (loop' = "callback" \/ loop' = "waiting")
       /\ (loop # "callback" /\ loop' = "callback") => loop = "waiting"
       /\ (loop = "callback" /\ loop' = "waiting" /\ err') => tasks' = tasks]_vars

\* the goroutine of the first tick ended in a panic after a failed request,
\* and a later tick started a goroutine for "p1" (the first entry of every
\* list) that waits for its GetComponent
C27_Witness ==
    /\ Len(tasks) >= 2
    /\ tasks[1].res = "panic"
    /\ tasks[2].key = <<112, 49>>
    /\ tasks[2].pc = "GetComponent"

\* C28: executeGet for a response whose status is not 2xx returns an error
\* that carries the status code and the body, and decodes nothing.
C28_Non2xxIsError ==
    (arg.fn = "executeGet" /\ out # <<>> /\ arg.status \notin 200..299) =>
        /\ out[1].err
        /\ out[1].status = arg.status
        /\ out[1].body = arg.body
        /\ ~out[1].decoded

\* C29: no Report starts before InitMetrics has returned without an error
\* and with at least one registered metric: whenever the loop is started or
\* a reporting goroutine exists, Schedule has returned nil and the keys it
\* got are registered; and while Schedule is still fetching the catalog or
\* registering there is no loop, no goroutine and no holder of the lock, so
\* the registration runs alongside no Report.
C29_NoReportBeforeInit ==
    /\ (loop # "notStarted" \/ tasks # <<>>) =>
           /\ pc = "returned"
           /\ created /\ ~initErr
           /\ metricNames # <<>>
           /\ Range(metricNames) = DOMAIN metrics
           /\ DOMAIN points = DOMAIN metrics
    /\ pc # "returned" =>
           /\ loop = "notStarted"
           /\ tasks = <<>>
           /\ mut = 0
           /\ hist = EmptyMap

\* a goroutine is inside Report, after [bugs] was registered
C29_Witness ==
    /\ metricNames = <<"bugs">>
    /\ \E t \in Tasks : tasks[t].pc = "InReport" /\ mut = t

\* C30: Report releases the lock on each of its ways out: the step in which
\* a goroutine leaves Report, by the return after its loop, by the return for
\* a label mismatch or by a panic on nil measures, leaves the lock free and
\* no goroutine inside Report, which is all a goroutine waiting at Report
\* needs to enter; and the lock is taken only by a step that enters Report.
C30_LockReleasedOnEveryExit ==
    [][/\ \A t \in Tasks :
              (tasks[t].pc \in {"Report", "InReport"} /\ tasks'[t].pc = "done") =>
                  /\ tasks'[t].res \in {"reported", "dropped", "panic"}
                  /\ tasks'[t].res = "reported" <=> tasks[t].pc = "InReport"
                  /\ tasks'[t].res = "panic" => ~tasks[t].measures.ok
                  /\ mut' = 0
                  /\ \A u \in Tasks : tasks'[u].pc # "InReport"
       /\ (mut = 0 /\ mut' # 0) =>
              (mut' \in Tasks /\ Enters(mut') /\ tasks'[mut'].pc = "InReport")]_vars

\* a Report returned for a label mismatch, and after it another goroutine
\* took the lock and is inside Report
C30_Witness ==
    \E t, u \in Tasks :
        /\ tasks[t].res = "dropped"
        /\ tasks[u].pc = "InReport" /\ mut = u

\* the calls of the log for component c that set a point
SettingCalls(c) ==
    {i \in 1..Len(out) : out[i].component = c /\ out[i].kinds # {}}

\* the last call of the log for component c that set a point
LastSetting(c) ==
    out[CHOOSE i \in SettingCalls(c) : \A j \in SettingCalls(c) : j <= i]

\* the metric of the first measure of a call whose point was set
FirstKind(e) ==
    LET ms == e.measures.Measures
        i == CHOOSE x \in 1..Len(ms) :
                 /\ ~Skipped(ms[x])
                 /\ \A y \in 1..(x - 1) : Skipped(ms[y])
    IN  ms[i].Metric

\* the first three parts of C31: the memo entry of a component is the labels
\* of the last Report for it that set a point, with the names of the
\* LabelSet and the component as "component"
MemoIsLastSetting ==
    \A c \in DOMAIN componentLabels :
        /\ SettingCalls(c) # {}
        /\ componentLabels[c] = LastSetting(c).labels
        /\ DOMAIN componentLabels[c] = Range(labels)
        /\ componentLabels[c][componentNameLabel] = c

\* C31: the memo entry of a component is the labels of the last Report for it
\* that set a point, its names are the LabelSet and its "component" is the
\* component; and every live point of the component in the series of the
\* metric that Report processed first is keyed by the memo entry.
C31_MemoKeysFirstKind ==
    /\ MemoIsLastSetting
    /\ \A c \in DOMAIN componentLabels :
           \A a \in PointsOf(points, FirstKind(LastSetting(c)), c) :
               a = componentLabels[c]

\* the call of Report logged in this step
ThisCall == out'[Len(out')]

\* the call logged in this step was accepted, set a point, and found a memo
\* entry of its component that differs from its labels
ChangesLabels(e) ==
    /\ e.res = "reported" /\ e.kinds # {}
    /\ e.component \in DOMAIN e.memo
    /\ e.memo[e.component] # e.labels

\* C32: the memo has one entry per component, not per metric: in a Report
\* whose labels differ from the memo, the first measure that is set deletes
\* the old point from the series of its own metric and puts the new labels
\* into the memo; every later measure of that Report finds the memo equal to
\* the labels, so nothing is deleted from the series of the other metrics.
C32_MemoPerComponent ==
    [][ChangesLabels(ThisCall) =>
          LET e == ThisCall
              old == e.memo[e.component]
              first == FirstKind(e)
          IN  /\ componentLabels' = MapPut(componentLabels, e.component,
                                           e.labels)
              /\ DOMAIN points'[first] =
                     ((DOMAIN points[first]) \ {old}) \cup {e.labels}
              /\ \A k \in e.kinds \ {first} :
                     DOMAIN points'[k] = (DOMAIN points[k]) \cup {e.labels}
              /\ \A k \in (DOMAIN points) \ e.kinds :
                     points'[k] = points[k]]_vars

\* a Report with changed labels set two metrics: the old point is gone from
\* the series of the first and still live in the series of the second
C32_Witness ==
    /\ out # <<>>
    /\ LET e == out[Len(out)]
       IN  /\ e.res = "reported" /\ e.kinds # {}
           /\ e.component \in DOMAIN e.memo
           /\ e.memo[e.component] # e.labels
           /\ \E k \in e.kinds \ {FirstKind(e)} :
                  /\ e.memo[e.component] \in DOMAIN e.points[k]
                  /\ e.memo[e.component] \in DOMAIN points[k]
                  /\ e.memo[e.component] \in DOMAIN e.points[FirstKind(e)]
                  /\ e.memo[e.component] \notin DOMAIN points[FirstKind(e)]

\* C33: a point leaves a series only in the step in which an accepted Report
\* for the component of the point returns, and only when the labels of that
\* Report differ from the memo entry, which is the point's key; a point that
\* stays changes its value only when a Report with its labels returns.  So
\* the points of a component that is no longer listed, whose fetches fail or
\* whose Reports are dropped stay exported with their last values.
C33_PointsDeletedOnlyByReport ==
    [][\A k \in DOMAIN points :
          /\ k \in DOMAIN points'
          /\ \A a \in DOMAIN points[k] :
                 /\ a \notin DOMAIN points'[k] =>
                       \E t \in Tasks :
                           /\ Returns(t) /\ tasks'[t].res = "reported"
                           /\ tasks[t].component.Key = a[componentNameLabel]
                           /\ tasks[t].component.Key \in DOMAIN componentLabels
                           /\ componentLabels[tasks[t].component.Key] = a
                           /\ tasks[t].labels # a
                 /\ (a \in DOMAIN points'[k] /\ points'[k][a] # points[k][a]) =>
                       \E t \in Tasks :
                           /\ Returns(t) /\ tasks'[t].res = "reported"
                           /\ tasks[t].labels = a]_vars

\* the Report of the first goroutine set points of p1; a goroutine of a later
\* tick for p1 had its GetMeasures fail, and the points of p1 are exported
C33_Witness ==
    /\ Len(tasks) = 2
    /\ tasks[1].res = "reported"
    /\ tasks[2].key = <<112, 49>>
    /\ tasks[2].pc = "Report" /\ ~tasks[2].measures.ok
    /\ \E k \in DOMAIN points : PointsOf(points, k, <<112, 49>>) # {}
    /\ <<112, 49>> \in DOMAIN componentLabels

\* the value the Report of goroutine t sets for metric k: that of its last
\* measure of k that is not skipped
ValueOf(t, k) ==
    LET ms == tasks[t].measures.Measures
        set == {i \in 1..Len(ms) : ms[i].Metric = k /\ ~Skipped(ms[i])}
        i == CHOOSE x \in set : \A y \in set : y <= x
    IN  getFloatValue(metrics[k].metricType, ms[i]).val

\* the metrics the Report of goroutine t sets
KindsOf(t) ==
    LET ms == tasks[t].measures.Measures
    IN  {ms[i].Metric : i \in {j \in 1..Len(ms) : ~Skipped(ms[j])}}

\* C34: the callbacks run one at a time in the one loop: a callback starts
\* only from the waiting loop and the timer is armed again only when the
\* callback returns; a callback starts goroutines whether or not goroutines
\* of earlier ticks are still running; and what is exported for a component
\* is what the Report that took the lock last wrote, whichever tick it is of:
\* when the Report of the holder returns, the memo entry of its component is
\* its labels and the points under its labels have its values, also when a
\* goroutine started after it has reported before.
C34_LastLockHolderWins ==
    [][/\ (loop' = "callback" /\ loop # "callback") => loop = "waiting"
       /\ (loop = "callback" /\ loop' # "callback") => loop' = "waiting"
       /\ Len(tasks') > Len(tasks) => (loop = "callback" /\ loop' = "waiting")
       /\ \A t \in Tasks :
              (Enters(t) /\ tasks'[t].pc = "InReport") => (mut = 0 /\ mut' = t)
       /\ \A t \in Tasks :
              Returns(t) =>
                  LET c == tasks[t].component.Key
                      l == tasks[t].labels
                  IN  /\ mut = t
                      /\ c \in DOMAIN hist'
                      /\ hist'[c] = [labels |-> l, kinds |-> KindsOf(t)]
                      /\ KindsOf(t) # {} =>
                             /\ c \in DOMAIN componentLabels'
                             /\ componentLabels'[c] = l
                      /\ \A k \in KindsOf(t) :
                             /\ l \in DOMAIN points'[k]
                             /\ points'[k][l] = ValueOf(t, k)]_vars

\* a goroutine of a later tick for p1 has reported, and the goroutine of the
\* first tick for p1 took the lock after it, with other labels: what it
\* writes is what is exported for p1
C34_Witness ==
    /\ Len(tasks) = 2
    /\ tasks[1].pc = "InReport" /\ mut = 1
    /\ tasks[1].key = <<112, 49>>
    /\ tasks[2].res = "reported"
    /\ DOMAIN hist = {<<112, 49>>}
    /\ hist[<<112, 49>>].kinds # {}
    /\ hist[<<112, 49>>].labels # tasks[1].labels
    /\ KindsOf(1) # {}

\* entry i of the catalog is one registerMetrics tries to register: it is
\* supported and no supported entry before it has its key
Registers(i) ==
    /\ supportsMetric(allMetrics[i])
    /\ \A j \in 1..(i - 1) :
           supportsMetric(allMetrics[j]) => allMetrics[j].Key # allMetrics[i].Key

\* registerMetrics fails at entry k, with the label names lbls
FailsAt(k, lbls) ==
    /\ Registers(k)
    /\ RegisterFails(prom, allMetrics[k].Key, lbls)
    /\ \A j \in 1..(k - 1) :
           Registers(j) => ~RegisterFails(prom, allMetrics[j].Key, lbls)

\* C35: when InitMetrics fails at the k-th entry of the catalog, it returns
\* no keys, and the metrics registered before that entry in the same call
\* stay in pe.metrics and in the default registry: the state before the call
\* is not restored.
C35_NoRollbackOnError ==
    [][(pc = "InitMetrics" /\ initErr') =>
          \E k \in 1..Len(allMetrics) :
              /\ FailsAt(k, labels')
              /\ metricNames' = <<>>
              /\ LET before == {allMetrics[j].Key :
                                   j \in {x \in 1..(k - 1) : Registers(x)}}
                 IN  /\ DOMAIN metrics' = (DOMAIN metrics) \cup before
                     /\ \A key \in before :
                            /\ [name |-> key, labelNames |-> labels'] \in prom'
                            /\ key \in DOMAIN points'
                     /\ before # {} => (metrics' # metrics /\ prom' # prom)]_vars

\* InitMetrics failed at "goroutines", the second entry: it returned no keys,
\* and bugs, registered before it, is in pe.metrics and in the registry
C35_Witness ==
    /\ initErr /\ metricNames = <<>>
    /\ allMetrics[2].Key = "goroutines"
    /\ "bugs" \in DOMAIN metrics
    /\ \E d \in prom : d.name = "bugs"
    /\ metrics # EmptyMap

====
